---- MODULE Spec2Model ----
(***************************************************************************)
(* A model of tga-rs (src/lib.rs): the encoder of 32-bit uncompressed      *)
(* true-color Truevision TGA files.                                        *)
(*                                                                         *)
(* Three specifications share the module:                                  *)
(*   Spec        Image::new followed by any number of Image::write_to      *)
(*               calls, each on a fresh sink that accepts sink.cap bytes   *)
(*               and then fails every write; one step per write the code   *)
(*               issues to the sink.                                       *)
(*   SpecBuilder any sequence of ImageDescriptorBuilder calls.             *)
(*   SpecSize    Image::effective_size on a target whose usize is 32 or 64 *)
(*               bits wide, built with or without overflow checks.         *)
(***************************************************************************)
EXTENDS Integers, Sequences, FiniteSets, TLC

VARIABLES
    image,          \* the Image: [data, width, height]
    args,           \* the arguments Image::new was called with
    pc,             \* position of Image::write_to: "idle", a field name, "ok", "err"
    header,         \* local `header` of Image::write_to
    footer,         \* local `footer` of Image::write_to
    sink,           \* the caller's sink: [out, cap, failed]
    lastOk,         \* output of the last write_to that returned Ok (<<>>: none yet)
    builder,        \* an ImageDescriptorBuilder: [alpha_depth, horizontal_ordering, vertical_ordering]
    lastSet,        \* the argument of the last call of each setter (the default before any)
    lastOp,         \* the last ImageDescriptorBuilder call
    alphaFits,      \* every with_alpha argument so far was in 0..15
    descriptor,     \* what the last build returned (-1: the last call was not build)
    size            \* the last Image::effective_size call: [bits, checks, width, height, result, called]

vars == <<image, args, pc, header, footer, sink, lastOk,
          builder, lastSet, lastOp, alphaFits, descriptor, size>>

imageVars   == <<image, args, pc, header, footer, sink, lastOk>>
builderVars == <<builder, lastSet, lastOp, alphaFits, descriptor>>

-----------------------------------------------------------------------------
(* Bounds of the model. *)

MaxLen == 4             \* longest pixel buffer
NumByteValues == 2      \* how many distinct byte values a pixel buffer draws from
MaxSmallDim == 3        \* effective_size is tried on every dimension 0..MaxSmallDim

ByteValues == {(17 * k) % 256 : k \in 1..NumByteValues}

RECURSIVE SeqsUpTo(_, _)
SeqsUpTo(S, n) ==
    IF n = 0 THEN {<<>>}
    ELSE LET shorter == SeqsUpTo(S, n - 1)
         IN  shorter \cup {Append(s, b) : s \in {t \in shorter : Len(t) = n - 1}, b \in S}

DataSamples == SeqsUpTo(ByteValues, MaxLen)

U16Max == 2^16 - 1
U8Max  == 2^8 - 1

\* <<width, height>> Image::new is tried on: zero and small dimensions, a
\* width whose two bytes differ, dimensions with the top bit set, the largest
\* u16, and 32768 x 32768, where width * height * 4 is 2^32
WriteDims == {<<0, 0>>, <<0, 1>>, <<1, 1>>, <<258, 32768>>,
              <<32768, 32768>>, <<65535, 2>>}

\* dimensions effective_size is tried on: the small ones, every power of two
\* and its neighbours below, and the largest u16
SizeDims ==
    (0..MaxSmallDim) \cup {2^k : k \in 0..15} \cup {2^k - 1 : k \in 1..16}

-----------------------------------------------------------------------------
(* Constants and tag types, lib.rs:5-72 *)

\* b"TRUEVISION-XFILE"
SIGNATURE == <<84, 82, 85, 69, 86, 73, 83, 73, 79, 78, 45, 88, 70, 73, 76, 69>>
SIGNATURE_SIZE == 16
HEADER_SIZE == 18
FOOTER_SIZE == 26

BitDepth_B8 == 8
BitDepth_B32 == 32
BitDepth_default == BitDepth_B32

ColorMapType_ABSENT == 0
ColorMapType_default == ColorMapType_ABSENT

ImageType_TRUE_COLOR == 2
ImageType_default == ImageType_TRUE_COLOR

HorizontalOrdering == {"LeftToRight", "RightToLeft"}
HorizontalOrdering_default == "LeftToRight"

VerticalOrdering == {"BottomToTop", "TopToBottom"}
VerticalOrdering_default == "BottomToTop"

ImageDescriptor_default == 0

-----------------------------------------------------------------------------
(* u8 bit operations *)

Bit(x, i) == (x \div 2^i) % 2

RECURSIVE BitOrFrom(_, _, _)
BitOrFrom(a, b, i) ==
    IF i > 7 THEN 0
    ELSE (IF Bit(a, i) = 1 \/ Bit(b, i) = 1 THEN 2^i ELSE 0) + BitOrFrom(a, b, i + 1)

\* a | b on u8
BitOr(a, b) == BitOrFrom(a, b, 0)

-----------------------------------------------------------------------------
(* ImageDescriptorBuilder, lib.rs:77-126 *)

HORIZONTAL_ORDERING_BITMASK == 16
VERTICAL_ORDERING_BITMASK == 32

ImageDescriptorBuilder_default ==
    [alpha_depth         |-> BitDepth_default,
     horizontal_ordering |-> HorizontalOrdering_default,
     vertical_ordering   |-> VerticalOrdering_default]

ImageDescriptorBuilder_new == ImageDescriptorBuilder_default

\* a build that adds the masks instead of or-ing them
ImageDescriptorBuilder_build_add(self) ==
    LET v1 == self.alpha_depth
        v2 == IF self.horizontal_ordering = "RightToLeft"
              THEN v1 + HORIZONTAL_ORDERING_BITMASK ELSE v1
        v3 == IF self.vertical_ordering = "TopToBottom"
              THEN v2 + VERTICAL_ORDERING_BITMASK ELSE v2
    IN  v3 % 256

ImageDescriptorBuilder_build(self) ==
    LET v0 == 0
        v1 == BitOr(v0, self.alpha_depth)
        v2 == IF self.horizontal_ordering = "RightToLeft"
              THEN BitOr(v1, HORIZONTAL_ORDERING_BITMASK) ELSE v1
        v3 == IF self.vertical_ordering = "TopToBottom"
              THEN BitOr(v2, VERTICAL_ORDERING_BITMASK) ELSE v2
    IN  v3

ImageDescriptorBuilder_with_alpha(self, depth) ==
    [self EXCEPT !.alpha_depth = depth]

ImageDescriptorBuilder_with_horizontal_ordering(self, ordering) ==
    [self EXCEPT !.horizontal_ordering = ordering]

ImageDescriptorBuilder_with_vertical_ordering(self, ordering) ==
    [self EXCEPT !.vertical_ordering = ordering]

-----------------------------------------------------------------------------
(* Records, lib.rs:128-220 *)

ColorMapSpecification_default ==
    [first_entry_index |-> 0,
     entry_count       |-> 0,
     color_depth       |-> BitDepth_default]

ImageSpecification_default ==
    [x_origin    |-> 0,
     y_origin    |-> 0,
     width       |-> 0,
     height      |-> 0,
     pixel_depth |-> BitDepth_default,
     descriptor  |-> ImageDescriptor_default]

Header_default ==
    [id_length               |-> 0,
     color_map_type          |-> ColorMapType_default,
     image_type              |-> ImageType_default,
     color_map_specification |-> ColorMapSpecification_default,
     image_specification     |-> ImageSpecification_default]

\* a footer whose last byte is the character '0' instead of NUL
Footer_default_zero_char ==
    [extension_offset |-> 0,
     developer_offset |-> 0,
     signature        |-> SIGNATURE,
     dot              |-> 46,
     nul              |-> 48]

Footer_default ==
    [extension_offset |-> 0,
     developer_offset |-> 0,
     signature        |-> SIGNATURE,
     dot              |-> 46,
     nul              |-> 0]

-----------------------------------------------------------------------------
(* byteorder: the bytes write_u8, write_u16::<LittleEndian> and              *)
(* write_u32::<LittleEndian> hand to write_all                               *)

U8(v) == <<v>>

\* big-endian instead of little-endian
U16BE(v) == <<v \div 256, v % 256>>

U16LE(v) == <<v % 256, v \div 256>>

U32LE(v) == <<v % 256, (v \div 256) % 256, (v \div 65536) % 256, v \div 16777216>>

-----------------------------------------------------------------------------
(* The sink: accepts bytes until it holds cap of them, then fails every     *)
(* write.  write_all hands the sink the bytes until all are taken or a      *)
(* write fails; an empty buffer causes no write at all.                     *)

FreshSink(cap) == [out |-> <<>>, cap |-> cap, failed |-> 0]

NoSink == FreshSink(0)

Sink_write_all(s, buf) ==
    IF buf = <<>> THEN [sink |-> s, ok |-> TRUE]
    ELSE LET room == s.cap - Len(s.out)
         IN  IF Len(buf) <= room
             THEN [sink |-> [s EXCEPT !.out = @ \o buf], ok |-> TRUE]
             ELSE [sink |-> [s EXCEPT !.out = @ \o SubSeq(buf, 1, room),
                                      !.failed = @ + 1],
                   ok   |-> FALSE]

\* a write whose error is dropped instead of returned
Write_ignoring_error(buf, next) ==
    LET r == Sink_write_all(sink, buf)
    IN  /\ sink' = r.sink
        /\ pc' = next

\* `w.write_...(..)?`: write, and return the error if there is one
Write(buf, next) ==
    LET r == Sink_write_all(sink, buf)
    IN  /\ sink' = r.sink
        /\ pc' = IF r.ok THEN next ELSE "err"

-----------------------------------------------------------------------------
(* Image, lib.rs:222-265 *)

\* a constructor that stores the dimensions the wrong way round
Image_new_swapped(width, height, data) ==
    [data |-> data, width |-> height, height |-> width]

Image_new(width, height, data) ==
    [data |-> data, width |-> width, height |-> height]

\* the `header` Image::write_to builds, lib.rs:245-256
Image_write_to_header(self) ==
    [Header_default EXCEPT
        !.image_specification =
            [ImageSpecification_default EXCEPT
                !.width = self.width,
                !.height = self.height,
                !.descriptor =
                    ImageDescriptorBuilder_build(
                        ImageDescriptorBuilder_with_vertical_ordering(
                            ImageDescriptorBuilder_with_alpha(
                                ImageDescriptorBuilder_new, BitDepth_B8),
                            "TopToBottom"))]]

\* what the longest output of the model needs, plus one
MaxCap == HEADER_SIZE + MaxLen + FOOTER_SIZE + 1

\* Image::write_to is called with a fresh sink: lib.rs:244-258
Image_write_to_call ==
    /\ pc = "idle"
    /\ \E cap \in 0..MaxCap :
           sink' = FreshSink(cap)
    /\ header' = Image_write_to_header(image)
    /\ footer' = Footer_default
    /\ pc' = "id_length"
    /\ UNCHANGED <<image, args, lastOk>>

\* Header::write_to, lib.rs:178-186; its last two lines call the
\* write_to of the two specifications
Header_write_to ==
    /\ pc \in {"id_length", "color_map_type", "image_type"}
    /\ CASE pc = "id_length"      -> Write(U8(header.id_length), "color_map_type")
         [] pc = "color_map_type" -> Write(U8(header.color_map_type), "image_type")
         [] pc = "image_type"     -> Write(U8(header.image_type), "first_entry_index")
    /\ UNCHANGED <<image, args, header, footer, lastOk>>

\* ColorMapSpecification::write_to, lib.rs:136-142
ColorMapSpecification_write_to ==
    LET self == header.color_map_specification
    IN  /\ pc \in {"first_entry_index", "entry_count", "color_depth"}
        /\ CASE pc = "first_entry_index" -> Write(U16LE(self.first_entry_index), "entry_count")
             [] pc = "entry_count"       -> Write(U16LE(self.entry_count), "color_depth")
             [] pc = "color_depth"       -> Write(U8(self.color_depth), "x_origin")
        /\ UNCHANGED <<image, args, header, footer, lastOk>>

\* ImageSpecification::write_to, lib.rs:156-165
ImageSpecification_write_to ==
    LET self == header.image_specification
    IN  /\ pc \in {"x_origin", "y_origin", "width", "height", "pixel_depth", "descriptor"}
        /\ CASE pc = "x_origin"    -> Write(U16LE(self.x_origin), "y_origin")
             [] pc = "y_origin"    -> Write(U16LE(self.y_origin), "width")
             [] pc = "width"       -> Write(U16LE(self.width), "height")
             [] pc = "height"      -> Write(U16LE(self.height), "pixel_depth")
             [] pc = "pixel_depth" -> Write(U8(self.pixel_depth), "descriptor")
             [] pc = "descriptor"  -> Write(U8(self.descriptor), "data")
        /\ UNCHANGED <<image, args, header, footer, lastOk>>

\* a write of the pixels that skips them when a dimension is zero
Image_write_data_unless_empty ==
    /\ pc = "data"
    /\ IF image.width = 0 \/ image.height = 0
       THEN Write(<<>>, "extension_offset")
       ELSE Write(image.data, "extension_offset")
    /\ UNCHANGED <<image, args, header, footer, lastOk>>

\* `w.write_all(&self.data)?`, lib.rs:261
Image_write_data ==
    /\ pc = "data"
    /\ Write(image.data, "extension_offset")
    /\ UNCHANGED <<image, args, header, footer, lastOk>>

\* a footer written without its last byte
Footer_write_to_short ==
    /\ pc \in {"extension_offset", "developer_offset", "signature", "dot", "nul"}
    /\ CASE pc = "extension_offset" -> Write(U32LE(footer.extension_offset), "developer_offset")
         [] pc = "developer_offset" -> Write(U32LE(footer.developer_offset), "signature")
         [] pc = "signature"        -> Write(footer.signature, "dot")
         [] pc = "dot"              -> Write(U8(footer.dot), "nul")
         [] pc = "nul"              -> Write(<<>>, "ok")
    /\ UNCHANGED <<image, args, header, footer, lastOk>>

\* Footer::write_to, lib.rs:211-219; after it Image::write_to reaches Ok(())
Footer_write_to ==
    /\ pc \in {"extension_offset", "developer_offset", "signature", "dot", "nul"}
    /\ CASE pc = "extension_offset" -> Write(U32LE(footer.extension_offset), "developer_offset")
         [] pc = "developer_offset" -> Write(U32LE(footer.developer_offset), "signature")
         [] pc = "signature"        -> Write(footer.signature, "dot")
         [] pc = "dot"              -> Write(U8(footer.dot), "nul")
         [] pc = "nul"              -> Write(U8(footer.nul), "ok")
    /\ UNCHANGED <<image, args, header, footer, lastOk>>

\* Image::write_to returns Ok(()) or the sink's error; its locals and the
\* borrow of the sink end
Image_write_to_return ==
    /\ pc \in {"ok", "err"}
    /\ lastOk' = IF pc = "ok" THEN sink.out ELSE lastOk
    /\ pc' = "idle"
    /\ header' = Header_default
    /\ footer' = Footer_default
    /\ sink' = NoSink
    /\ UNCHANGED <<image, args>>

BuilderIdle ==
    /\ builder = ImageDescriptorBuilder_default
    /\ lastSet = ImageDescriptorBuilder_default
    /\ lastOp = "none"
    /\ alphaFits = TRUE
    /\ descriptor = -1

SizeIdle ==
    size = [bits |-> 64, checks |-> FALSE, width |-> 0, height |-> 0,
            result |-> [hi |-> 0, lo |-> 0], called |-> FALSE]

ImageIdle ==
    /\ pc = "idle"
    /\ header = Header_default
    /\ footer = Footer_default
    /\ sink = NoSink
    /\ lastOk = <<>>

\* the state after Image::new(width, height, data)
Init ==
    /\ \E dims \in WriteDims, data \in DataSamples :
           /\ args = [width |-> dims[1], height |-> dims[2], data |-> data]
           /\ image = Image_new(dims[1], dims[2], data)
    /\ ImageIdle
    /\ BuilderIdle
    /\ SizeIdle

Next ==
    \/ Image_write_to_call /\ UNCHANGED <<builderVars, size>>
    \/ Header_write_to /\ UNCHANGED <<builderVars, size>>
    \/ ColorMapSpecification_write_to /\ UNCHANGED <<builderVars, size>>
    \/ ImageSpecification_write_to /\ UNCHANGED <<builderVars, size>>
    \/ Image_write_data /\ UNCHANGED <<builderVars, size>>
    \/ Footer_write_to /\ UNCHANGED <<builderVars, size>>
    \/ Image_write_to_return /\ UNCHANGED <<builderVars, size>>

Spec == Init /\ [][Next]_vars

-----------------------------------------------------------------------------
(* ImageDescriptorBuilder calls in any order; Init is the state after        *)
(* ImageDescriptorBuilder::new()                                             *)

Builder_with_alpha ==
    \E depth \in 0..U8Max :
        /\ builder' = ImageDescriptorBuilder_with_alpha(builder, depth)
        /\ lastSet' = [lastSet EXCEPT !.alpha_depth = depth]
        /\ alphaFits' = (alphaFits /\ depth <= 15)
        /\ lastOp' = "with_alpha"
        /\ descriptor' = -1

Builder_with_horizontal_ordering ==
    \E ordering \in HorizontalOrdering :
        /\ builder' = ImageDescriptorBuilder_with_horizontal_ordering(builder, ordering)
        /\ lastSet' = [lastSet EXCEPT !.horizontal_ordering = ordering]
        /\ lastOp' = "with_horizontal_ordering"
        /\ descriptor' = -1
        /\ UNCHANGED alphaFits

Builder_with_vertical_ordering ==
    \E ordering \in VerticalOrdering :
        /\ builder' = ImageDescriptorBuilder_with_vertical_ordering(builder, ordering)
        /\ lastSet' = [lastSet EXCEPT !.vertical_ordering = ordering]
        /\ lastOp' = "with_vertical_ordering"
        /\ descriptor' = -1
        /\ UNCHANGED alphaFits

\* build takes &self: the builder stays as it is
Builder_build ==
    /\ descriptor' = ImageDescriptorBuilder_build(builder)
    /\ lastOp' = "build"
    /\ UNCHANGED <<builder, lastSet, alphaFits>>

InitBuilder ==
    /\ builder = ImageDescriptorBuilder_new
    /\ lastSet = [alpha_depth         |-> BitDepth_default,
                  horizontal_ordering |-> HorizontalOrdering_default,
                  vertical_ordering   |-> VerticalOrdering_default]
    /\ lastOp = "new"
    /\ alphaFits = TRUE
    /\ descriptor = -1
    /\ args = [width |-> 0, height |-> 0, data |-> <<>>]
    /\ image = Image_new(0, 0, <<>>)
    /\ ImageIdle
    /\ SizeIdle

NextBuilder ==
    \/ Builder_with_alpha /\ UNCHANGED <<imageVars, size>>
    \/ Builder_with_horizontal_ordering /\ UNCHANGED <<imageVars, size>>
    \/ Builder_with_vertical_ordering /\ UNCHANGED <<imageVars, size>>
    \/ Builder_build /\ UNCHANGED <<imageVars, size>>

SpecBuilder == InitBuilder /\ [][NextBuilder]_vars

-----------------------------------------------------------------------------
(* usize arithmetic.  A usize value is kept as two limbs, hi * 2^16 + lo,   *)
(* because width * 4 * height does not fit the integers of the model        *)
(* checker; hi stays below 2^31.                                            *)

Limb == 2^16

\* `x as usize` of a u16 or u8
AsUsize(x) == [hi |-> x \div Limb, lo |-> x % Limb]

\* the exact product of a two-limb value and y < 2^16, by halves of y
WideMul(x, y) ==
    LET y1 == y \div 256
        y0 == y % 256
        t  == x.lo * y1
        s  == (t % 256) * 256 + x.lo * y0
    IN  [hi |-> x.hi * y + t \div 256 + s \div Limb, lo |-> s % Limb]

\* the exact quotient of a two-limb value by d < 2^15
WideDiv(x, d) ==
    LET r == (x.hi % d) * Limb + x.lo
    IN  [hi |-> x.hi \div d, lo |-> r \div d]

\* the value is below 2^bits (a hi limb is always below 2^31)
Fits(x, bits) == bits - 16 >= 31 \/ x.hi < 2^(bits - 16)

\* the value modulo 2^bits
Wrap(x, bits) == IF Fits(x, bits) THEN x ELSE [x EXCEPT !.hi = @ % 2^(bits - 16)]

Panic == [hi |-> -1, lo |-> 0]

\* x * y on usize: with overflow checks an overflow panics, without it wraps
usize_mul(x, y, bits, checks) ==
    IF x = Panic THEN Panic
    ELSE LET p == WideMul(x, y)
         IN  IF Fits(p, bits) THEN p
             ELSE IF checks THEN Panic ELSE Wrap(p, bits)

usize_div(x, d) == IF x = Panic THEN Panic ELSE WideDiv(x, d)

\* the division done first: width / 8 * 32 * height
effective_size_div_first(width, height, bits, checks) ==
    usize_mul(usize_mul(usize_div(AsUsize(width), 8), BitDepth_B32, bits, checks),
              height, bits, checks)

\* width as usize * BitDepth::B32.0 as usize / 8 * height as usize, lib.rs:233
effective_size(width, height, bits, checks) ==
    usize_mul(usize_div(usize_mul(AsUsize(width), BitDepth_B32, bits, checks), 8),
              height, bits, checks)

\* the widths of usize on the targets that have std::io
UsizeBits == {32, 64}

Image_effective_size_call ==
    /\ ~size.called
    /\ \E width \in SizeDims, height \in SizeDims :
           size' = [size EXCEPT !.width = width,
                                !.height = height,
                                !.result = effective_size(width, height, size.bits, size.checks),
                                !.called = TRUE]

\* the caller is done with the result (after a panic: the next run)
Image_effective_size_done ==
    /\ size.called
    /\ size' = [size EXCEPT !.width = 0, !.height = 0,
                            !.result = AsUsize(0), !.called = FALSE]

InitSize ==
    /\ \E bits \in UsizeBits, checks \in BOOLEAN :
           size = [bits |-> bits, checks |-> checks, width |-> 0, height |-> 0,
                   result |-> AsUsize(0), called |-> FALSE]
    /\ args = [width |-> 0, height |-> 0, data |-> <<>>]
    /\ image = Image_new(0, 0, <<>>)
    /\ ImageIdle
    /\ BuilderIdle

NextSize ==
    \/ Image_effective_size_call /\ UNCHANGED <<imageVars, builderVars>>
    \/ Image_effective_size_done /\ UNCHANGED <<imageVars, builderVars>>

SpecSize == InitSize /\ [][NextSize]_vars

-----------------------------------------------------------------------------
(* Properties of Image::write_to (Spec) *)

HeaderFields == {"id_length", "color_map_type", "image_type",
                 "first_entry_index", "entry_count", "color_depth",
                 "x_origin", "y_origin", "width", "height",
                 "pixel_depth", "descriptor"}

FooterFields == {"extension_offset", "developer_offset", "signature", "dot", "nul"}

InCall == pc # "idle"

\* the sink of the current call takes the whole output
NeverFails == sink.cap >= HEADER_SIZE + Len(args.data) + FOOTER_SIZE

PixelsOf(out) == SubSeq(out, HEADER_SIZE + 1, HEADER_SIZE + Len(args.data))

\* C1: on a sink that never fails write_to returns Ok and delivers the 18
\* header bytes, then the data passed to Image::new unchanged, then the 26
\* footer bytes, 18 + len(data) + 26 bytes in all, whatever the dimensions;
\* no pixel is delivered before the header is complete and no footer byte
\* before the pixels are.
C1_HeaderDataFooter ==
    (InCall /\ NeverFails) =>
        /\ pc # "err"
        /\ sink.failed = 0
        /\ pc \in HeaderFields => Len(sink.out) < HEADER_SIZE
        /\ pc = "data" => Len(sink.out) = HEADER_SIZE
        /\ pc \in FooterFields =>
              /\ Len(sink.out) >= HEADER_SIZE + Len(args.data)
              /\ Len(sink.out) < HEADER_SIZE + Len(args.data) + FOOTER_SIZE
              /\ PixelsOf(sink.out) = args.data
        /\ pc = "ok" =>
              /\ Len(sink.out) = HEADER_SIZE + Len(args.data) + FOOTER_SIZE
              /\ PixelsOf(sink.out) = args.data

\* a 1x1 image with three (not four) bytes of two different values was written
C1_Witness ==
    /\ pc = "ok"
    /\ args.width = 1 /\ args.height = 1
    /\ Len(args.data) = 3
    /\ args.data[1] # args.data[2]

\* C2: the first 12 bytes sent to a non-failing sink are 0, 0, 2 and then
\* nine zero bytes (color-map specification and origins), whatever the image.
C2_First12Bytes ==
    (InCall /\ NeverFails /\ Len(sink.out) >= 12) =>
        SubSeq(sink.out, 1, 12) = <<0, 0, 2, 0, 0, 0, 0, 0, 0, 0, 0, 0>>

\* C3: offsets 12-17 of the output hold the width and the height, each low
\* byte first, then 32 and 40; the header is 18 bytes long.
C3_WidthHeightDepthDescriptor ==
    (InCall /\ NeverFails) =>
        /\ pc \in HeaderFields => Len(sink.out) < 18
        /\ pc = "data" => Len(sink.out) = 18
        /\ Len(sink.out) >= 18 =>
              /\ sink.out[13] = args.width % 256
              /\ sink.out[14] = args.width \div 256
              /\ sink.out[13] + 256 * sink.out[14] = args.width
              /\ sink.out[15] = args.height % 256
              /\ sink.out[16] = args.height \div 256
              /\ sink.out[15] + 256 * sink.out[16] = args.height
              /\ sink.out[17] = 32
              /\ sink.out[18] = 40

\* an image whose width has two different bytes, and whose height has the
\* top bit set, was written
C3_Witness ==
    /\ pc = "ok"
    /\ args.width = 258
    /\ args.height = 32768
    /\ SubSeq(sink.out, 13, 16) = <<2, 1, 0, 128>>

\* C4: the last 26 bytes of a successful write are eight zero bytes,
\* TRUEVISION-XFILE, '.' and NUL, whatever the image.
C4_Footer ==
    pc = "ok" =>
        SubSeq(sink.out, Len(sink.out) - 25, Len(sink.out)) =
            <<0, 0, 0, 0, 0, 0, 0, 0,
              84, 82, 85, 69, 86, 73, 83, 73, 79, 78, 45, 88, 70, 73, 76, 69,
              46, 0>>

\* an image with pixels and non-zero dimensions was written
C4_Witness ==
    /\ pc = "ok"
    /\ Len(args.data) = MaxLen
    /\ args.width = 258

\* C5: with a sink that takes N bytes and then fails, N below the full
\* length, write_to returns the error, the sink holds exactly the first N
\* bytes of what a non-failing sink receives, and exactly one write failed
\* (none is attempted after it); with N at least the full length it returns Ok.
C5_FailingSink ==
    /\ sink.failed <= 1
    /\ sink.failed = 1 => pc = "err"
    /\ pc \in {"ok", "err"} =>
          IF NeverFails
          THEN pc = "ok" /\ sink.failed = 0
          ELSE /\ pc = "err"
               /\ sink.failed = 1
               /\ Len(sink.out) = sink.cap
               /\ lastOk # <<>> => sink.out = SubSeq(lastOk, 1, sink.cap)

\* after a successful write, a second one failed in the middle of the pixels
C5_Witness ==
    /\ pc = "err"
    /\ lastOk # <<>>
    /\ Len(args.data) = 4
    /\ sink.cap = HEADER_SIZE + 2
    /\ sink.out = SubSeq(lastOk, 1, HEADER_SIZE + 2)

\* C6: write_to leaves the Image as Image::new made it, and two successful
\* writes of the same Image deliver the same bytes.
C6_ImageUnchanged ==
    /\ image.data = args.data
    /\ image.width = args.width
    /\ image.height = args.height
    /\ (pc = "ok" /\ lastOk # <<>>) => sink.out = lastOk

\* a second successful write of an image with pixels and different dimensions
C6_Witness ==
    /\ pc = "ok"
    /\ lastOk # <<>>
    /\ Len(args.data) > 0
    /\ args.width # args.height

\* width * height * 4, exactly
ExactSize(width, height) == WideMul(WideMul(AsUsize(width), height), 4)

BodyLength == AsUsize(Len(sink.out) - HEADER_SIZE - FOOTER_SIZE)

C8_Examples ==
    /\ (image.width = 0 /\ image.height = 0 /\ image.data = <<>>)
           => (Len(sink.out) = 44 /\ Len(sink.out) = HEADER_SIZE + FOOTER_SIZE)
    /\ (image.width = 1 /\ image.height = 1 /\ Len(image.data) = 4)
           => Len(sink.out) = 48

\* C8 as stated: a successful write delivers 18 + width*height*4 + 26 bytes
\* whenever the data has length effective_size(width, height), on every
\* target; 0x0 with no data gives 44 bytes, 1x1 with 4 bytes gives 48.
C8_TotalLength_AsStated ==
    pc = "ok" =>
        /\ \A bits \in UsizeBits, checks \in BOOLEAN :
              AsUsize(Len(image.data))
                  = effective_size(image.width, image.height, bits, checks)
              => BodyLength = ExactSize(image.width, image.height)
        /\ C8_Examples

\* C8 amended: the same, on the targets where width*height*4 fits usize
\* (every 64-bit target).
C8_TotalLength ==
    pc = "ok" =>
        /\ \A bits \in UsizeBits, checks \in BOOLEAN :
              (/\ Fits(ExactSize(image.width, image.height), bits)
               /\ AsUsize(Len(image.data))
                      = effective_size(image.width, image.height, bits, checks))
              => BodyLength = ExactSize(image.width, image.height)
        /\ C8_Examples

\* a 1x1 image with 4 bytes was written: 48 bytes
C8_Witness ==
    /\ pc = "ok"
    /\ image.width = 1 /\ image.height = 1
    /\ Len(image.data) = 4
    /\ Len(sink.out) = 48

-----------------------------------------------------------------------------
(* Properties of Image::effective_size (SpecSize) *)

\* C7 as stated: effective_size(width, height) is width*height*4 for all u16
\* arguments, without wrapping or overflowing usize.
C7_EffectiveSize_AsStated ==
    size.called => size.result = ExactSize(size.width, size.height)

\* C7 amended: effective_size(width, height) is width*height*4 whenever that
\* fits usize, which is always so when usize has 64 bits (the division loses
\* nothing); when it does not fit, on a 32-bit target, the multiplication
\* overflows and the result is not width*height*4.
C7_EffectiveSize ==
    size.called =>
        LET exact == ExactSize(size.width, size.height)
        IN  /\ Fits(exact, size.bits) => size.result = exact
            /\ size.bits = 64 => size.result = exact
            /\ ~Fits(exact, size.bits) => size.result # exact

\* the largest arguments on a 64-bit target: 65535 * 65535 * 4 = 262136 * 2^16 + 4
C7_Witness ==
    /\ size.called
    /\ size.bits = 64
    /\ size.width = U16Max /\ size.height = U16Max
    /\ size.result = [hi |-> 262136, lo |-> 4]

-----------------------------------------------------------------------------
(* Properties of ImageDescriptorBuilder (SpecBuilder) *)

\* C9: each field of the builder holds the argument of the last call of its
\* setter; build returns alpha_depth with bit 4 or-ed in for RightToLeft and
\* bit 5 for TopToBottom: 40 for (8, LeftToRight, TopToBottom), 16 for
\* (0, RightToLeft, BottomToTop).
C9_BuildPacksFields ==
    /\ builder = lastSet
    /\ lastOp = "build" =>
          /\ descriptor \in 0..U8Max
          /\ \A i \in 0..7 :
                (Bit(descriptor, i) = 1) <=>
                    \/ Bit(builder.alpha_depth, i) = 1
                    \/ (i = 4 /\ builder.horizontal_ordering = "RightToLeft")
                    \/ (i = 5 /\ builder.vertical_ordering = "TopToBottom")
          /\ (/\ builder.alpha_depth = 8
              /\ builder.horizontal_ordering = "LeftToRight"
              /\ builder.vertical_ordering = "TopToBottom") => descriptor = 40
          /\ (/\ builder.alpha_depth = 0
              /\ builder.horizontal_ordering = "RightToLeft"
              /\ builder.vertical_ordering = "BottomToTop") => descriptor = 16

\* build after with_alpha(0), RightToLeft, BottomToTop returned 16
C9_Witness ==
    /\ lastOp = "build"
    /\ builder.alpha_depth = 0
    /\ builder.horizontal_ordering = "RightToLeft"
    /\ builder.vertical_ordering = "BottomToTop"
    /\ descriptor = 16

\* C10: after any calls whose alpha arguments fit in 4 bits (none included),
\* build returns a byte with bit 4 set iff RightToLeft, bit 5 set iff
\* TopToBottom, and bits 6-7 zero.
C10_OrderingBits ==
    (lastOp = "build" /\ alphaFits) =>
        /\ (Bit(descriptor, 4) = 1) <=> (builder.horizontal_ordering = "RightToLeft")
        /\ (Bit(descriptor, 5) = 1) <=> (builder.vertical_ordering = "TopToBottom")
        /\ Bit(descriptor, 6) = 0
        /\ Bit(descriptor, 7) = 0

====
